---- MODULE Spec2Model ----
(***************************************************************************)
(* A model of goes_ortho.py: the ellipsoid geometry transforms             *)
(* (ABIangle2LonLat, LonLat2ABIangle), the ortho-map builder               *)
(* (make_ortho_map) and the radiance resampler (orthorectify_abi_rad,      *)
(* output_ortho_netcdf).                                                   *)
(*                                                                         *)
(* Floating-point numbers are modelled as fixed-point values with Scale    *)
(* units per 1.0, together with the two IEEE special kinds the code relies *)
(* on: NaN and the signed infinities.  Every arithmetic operator follows   *)
(* the IEEE rules for the special kinds (NaN propagates, x/0 is an         *)
(* infinity, 0/0 is NaN) and numpy's rule that a domain error yields NaN   *)
(* instead of raising.                                                     *)
(***************************************************************************)
EXTENDS Integers, Sequences, FiniteSets, TLC

\* fixed-point resolution of the modelled doubles: Scale units are 1.0
Scale == 1000
\* pi and pi/2 in fixed point
Pi == 3142
HalfPi == 1571

----------------------------------------------------------------------------
(* numbers *)

NaN == [k |-> "nan", v |-> 0]
PInf == [k |-> "inf", v |-> 1]
NInf == [k |-> "inf", v |-> -1]
F(n) == [k |-> "fin", v |-> n]

IsNaN(a) == a.k = "nan"
IsFin(a) == a.k = "fin"
IsInf(a) == a.k = "inf"

Abs(n) == IF n < 0 THEN -n ELSE n
Sgn(n) == IF n < 0 THEN -1 ELSE IF n > 0 THEN 1 ELSE 0
\* integer division rounding toward zero
TDiv(a, b) == Sgn(a) * Sgn(b) * (Abs(a) \div Abs(b))

RECURSIVE IsqrtIn(_, _, _)
IsqrtIn(n, lo, hi) ==
    IF lo >= hi THEN lo
    ELSE LET mid == (lo + hi + 1) \div 2
         IN IF mid * mid <= n THEN IsqrtIn(n, mid, hi) ELSE IsqrtIn(n, lo, mid - 1)
Isqrt(n) == IsqrtIn(n, 0, 46340)

\* a + b
fAdd(a, b) ==
    IF IsNaN(a) \/ IsNaN(b) THEN NaN
    ELSE IF IsInf(a) /\ IsInf(b) THEN (IF a.v = b.v THEN a ELSE NaN)
    ELSE IF IsInf(a) THEN a
    ELSE IF IsInf(b) THEN b
    ELSE F(a.v + b.v)

\* -a
fNeg(a) == IF IsNaN(a) THEN NaN ELSE [k |-> a.k, v |-> -a.v]

\* a - b
fSub(a, b) == fAdd(a, fNeg(b))

\* a * b
fMul(a, b) ==
    IF IsNaN(a) \/ IsNaN(b) THEN NaN
    ELSE IF IsInf(a) \/ IsInf(b)
         THEN (IF a.v = 0 \/ b.v = 0 THEN NaN
               ELSE IF Sgn(a.v) * Sgn(b.v) > 0 THEN PInf ELSE NInf)
    ELSE F(TDiv(a.v * b.v, Scale))

\* a / b  (numpy: no exception, x/0 = +-inf, 0/0 = nan; a zero divisor is +0)
fDiv(a, b) ==
    IF IsNaN(a) \/ IsNaN(b) THEN NaN
    ELSE IF IsInf(a) /\ IsInf(b) THEN NaN
    ELSE IF IsInf(a) THEN (IF a.v * (IF b.v < 0 THEN -1 ELSE 1) > 0 THEN PInf ELSE NInf)
    ELSE IF IsInf(b) THEN F(0)
    ELSE IF b.v = 0 THEN (IF a.v = 0 THEN NaN ELSE IF a.v > 0 THEN PInf ELSE NInf)
    ELSE F(TDiv(a.v * Scale, b.v))

\* a ** 2
fSq(a) == fMul(a, a)

\* np.sqrt(a): nan for a negative argument
fSqrt(a) ==
    IF IsNaN(a) THEN NaN
    ELSE IF IsInf(a) THEN (IF a.v > 0 THEN PInf ELSE NaN)
    ELSE IF a.v < 0 THEN NaN
    ELSE F(Isqrt(a.v * Scale))

\* a < b  (False when either is NaN)
fLt(a, b) ==
    IF IsNaN(a) \/ IsNaN(b) THEN FALSE
    ELSE IF IsInf(a) /\ IsInf(b) THEN a.v < b.v
    ELSE IF IsInf(a) THEN a.v < 0
    ELSE IF IsInf(b) THEN b.v > 0
    ELSE a.v < b.v

----------------------------------------------------------------------------
(* elementary functions, on fixed-point radians *)

Clamp(n, lo, hi) == IF n < lo THEN lo ELSE IF n > hi THEN hi ELSE n

\* sine on [0, pi/2]: Taylor polynomial in fixed point
SinPos(x) ==
    LET x2 == (x * x) \div Scale
        u3 == (x * x2) \div Scale
        u5 == (u3 * x2) \div Scale
        u7 == (u5 * x2) \div Scale
    IN Clamp(x - (u3 \div 6) + (u5 \div 120) - (u7 \div 5040), 0, Scale)

\* cosine on [0, pi/2]
CosPos(x) ==
    LET x2 == (x * x) \div Scale
        x4 == (x2 * x2) \div Scale
        x6 == (x4 * x2) \div Scale
        x8 == (x6 * x2) \div Scale
    IN Clamp(Scale - (x2 \div 2) + (x4 \div 24) - (x6 \div 720) + (x8 \div 40320), 0, Scale)

\* argument reduced to [-pi, pi)
Reduce(x) == ((x + Pi) % (2 * Pi)) - Pi

SinI(x) ==
    LET y == Reduce(x)
        a == Abs(y)
        s == IF a > HalfPi THEN SinPos(Pi - a) ELSE SinPos(a)
    IN IF y < 0 THEN -s ELSE s

CosI(x) ==
    LET a == Abs(Reduce(x))
    IN IF a > HalfPi THEN -CosPos(Pi - a) ELSE CosPos(a)

\* the arctangent series r - r^3/3 + r^5/5 - r^7/7, r2 = r^2
AtanSeries(r, r2) ==
    LET r3 == (r * r2) \div Scale
        r5 == (r3 * r2) \div Scale
        r7 == (r5 * r2) \div Scale
    IN r - (r3 \div 3) + (r5 \div 5) - (r7 \div 7)

AtanHalf(r) == 2 * AtanSeries(r, (r * r) \div Scale)

\* arctangent on [0, 1]: one half-angle reduction, then the series
AtanSmall(t) ==
    AtanHalf((t * Scale) \div (Scale + Isqrt((Scale + ((t * t) \div Scale)) * Scale)))

AtanI(t) ==
    LET a == Abs(t)
        m == IF a > Scale THEN HalfPi - AtanSmall((Scale * Scale) \div a) ELSE AtanSmall(a)
    IN IF t < 0 THEN -m ELSE m

\* np.sin
fSin(a) == IF IsFin(a) THEN F(SinI(a.v)) ELSE NaN
\* np.cos
fCos(a) == IF IsFin(a) THEN F(CosI(a.v)) ELSE NaN
\* np.tan
fTan(a) == IF IsFin(a) THEN fDiv(F(SinI(a.v)), F(CosI(a.v))) ELSE NaN
\* np.arctan
fArctan(a) ==
    IF IsNaN(a) THEN NaN
    ELSE IF IsInf(a) THEN F(a.v * HalfPi)
    ELSE F(AtanI(a.v))
\* np.arcsin: nan outside [-1, 1]
fArcsin(a) ==
    IF ~IsFin(a) THEN NaN
    ELSE IF Abs(a.v) > Scale THEN NaN
    ELSE fArctan(fDiv(a, fSqrt(fSub(F(Scale), fSq(a)))))
\* np.radians
fRadians(a) == IF IsFin(a) THEN F(TDiv(a.v * Pi, 180 * Scale)) ELSE a
\* np.degrees
fDegrees(a) == IF IsFin(a) THEN F(TDiv(a.v * 180 * Scale, Pi)) ELSE a

----------------------------------------------------------------------------
(* Ellipsoid geometry model *)

\* lines 39-43 of ABIangle2LonLat: latitude and longitude from (Sx, Sy, Sz)
LonLatOf(Sx, Sy, Sz, k, H, lon_0_deg) ==
    [lon |-> fSub(lon_0_deg, fDegrees(fArctan(fDiv(Sy, fSub(H, Sx))))),
     lat |-> fDegrees(fArctan(fMul(k,
                fDiv(Sz, fSqrt(fAdd(fSq(fSub(H, Sx)), fSq(Sy)))))))]

\* lines 34-43 of ABIangle2LonLat, from the distance rs
FromRs(rs, x, y, k, H, lon_0_deg) ==
    LonLatOf(fMul(fMul(rs, fCos(x)), fCos(y)),
             fMul(fNeg(rs), fSin(x)),
             fMul(fMul(rs, fCos(x)), fSin(y)),
             k, H, lon_0_deg)

\* line 27 of ABIangle2LonLat: the near root of the quadratic
NearRoot(a, b, c) ==
    fDiv(fSub(fNeg(b), fSqrt(fSub(fSq(b), fMul(fMul(F(4 * Scale), a), c)))),
         fMul(F(2 * Scale), a))

\* ABIangle2LonLat(x, y, H, req, rpol, lon_0_deg)
ABIangle2LonLat(x, y, H, req, rpol, lon_0_deg) ==
    FromRs(NearRoot(fAdd(fSq(fSin(x)),
                         fMul(fSq(fCos(x)),
                              fAdd(fSq(fCos(y)),
                                   fMul(fDiv(fSq(req), fSq(rpol)), fSq(fSin(y)))))),
                    fMul(fMul(fMul(F(-2 * Scale), H), fCos(x)), fCos(y)),
                    fSub(fSq(H), fSq(req))),
           x, y, fDiv(fSq(req), fSq(rpol)), H, lon_0_deg)

\* lines 63-65 of LonLat2ABIangle
SatFrameRc(rc, lat_geo, dlon, H) ==
    [Sx |-> fSub(H, fMul(fMul(rc, fCos(lat_geo)), fCos(dlon))),
     Sy |-> fMul(fMul(fNeg(rc), fCos(lat_geo)), fSin(dlon)),
     Sz |-> fMul(rc, fSin(lat_geo)),
     rc |-> rc]

\* lines 59-65 of LonLat2ABIangle, from the geocentric latitude
SatFrameGeo(lat_geo, dlon, z, H, rpol, e) ==
    SatFrameRc(fAdd(fDiv(rpol, fSqrt(fSub(F(Scale), fMul(fSq(e), fSq(fCos(lat_geo)))))), z),
               lat_geo, dlon, H)

\* the satellite-frame position computed by LonLat2ABIangle (lines 51-65)
SatFrame(lon_deg, lat_deg, z, H, req, rpol, e, lon_0_deg) ==
    SatFrameGeo(fArctan(fMul(fDiv(fSq(rpol), fSq(req)), fTan(fRadians(lat_deg)))),
                fSub(fRadians(lon_deg), fRadians(lon_0_deg)),
                z, H, rpol, e)

\* lines 68-69 of LonLat2ABIangle
ScanAngles(s) ==
    [x |-> fArcsin(fDiv(fNeg(s.Sy),
                        fSqrt(fAdd(fAdd(fSq(s.Sx), fSq(s.Sy)), fSq(s.Sz))))),
     y |-> fArctan(fDiv(s.Sz, s.Sx))]

\* the visibility condition of line 72
NotVisible(s, H, req, rpol) ==
    fLt(fMul(H, fSub(H, s.Sx)),
        fAdd(fSq(s.Sy), fMul(fDiv(fSq(req), fSq(rpol)), fSq(s.Sz))))

\* lines 72-77 as they would run if not commented out
ScanAnglesIfVisible(s, H, req, rpol) ==
    IF NotVisible(s, H, req, rpol) THEN [x |-> NaN, y |-> NaN] ELSE ScanAngles(s)

\* a variant that measures longitude from Greenwich instead of from lon_0
LonLat2ABIangleNoOrigin(lon_deg, lat_deg, z, H, req, rpol, e, lon_0_deg) ==
    ScanAngles(SatFrame(lon_deg, lat_deg, z, H, req, rpol, e, F(0)))

\* a variant that enforces the visibility check of the commented-out lines 72-77
LonLat2ABIangleChecked(lon_deg, lat_deg, z, H, req, rpol, e, lon_0_deg) ==
    ScanAnglesIfVisible(SatFrame(lon_deg, lat_deg, z, H, req, rpol, e, lon_0_deg),
                        H, req, rpol)

\* LonLat2ABIangle(lon_deg, lat_deg, z, H, req, rpol, e, lon_0_deg)
LonLat2ABIangle(lon_deg, lat_deg, z, H, req, rpol, e, lon_0_deg) ==
    ScanAngles(SatFrame(lon_deg, lat_deg, z, H, req, rpol, e, lon_0_deg))

----------------------------------------------------------------------------
(* arrays: a 2-D array is a sequence of rows *)

None == [k |-> "none"]

Shape(arr) == <<Len(arr), IF Len(arr) = 0 THEN 0 ELSE Len(arr[1])>>

\* np.meshgrid(dem.x, dem.y) (line 155): both results have shape (len(y), len(x))
Meshgrid(xs, ys) ==
    [X |-> [r \in 1..Len(ys) |-> [c \in 1..Len(xs) |-> xs[c]]],
     Y |-> [r \in 1..Len(ys) |-> [c \in 1..Len(xs) |-> ys[r]]]]

\* arr.where(arr != v): cells equal to v become NaN (NaN != v is True: NaN stays)
WhereNe(arr, v) ==
    [r \in 1..Len(arr) |-> [c \in 1..Len(arr[r]) |->
        IF arr[r][c] = v /\ ~IsNaN(v) THEN NaN ELSE arr[r][c]]]

\* the masking of line 150 alone
MaskDemNoZero(vals, nodata) == WhereNe(vals, nodata)

\* lines 150-151: no-data cells, then zero cells, become NaN
MaskDem(vals, nodata) == WhereNe(WhereNe(vals, nodata), F(0))

\* GRS-80 eccentricity, 0.0818191910435 (line 143)
GRS80 == 82

\* the dem_ifov placeholder of line 185
DemIfov == -9999

\* satellite height read from the image (line 141)
SatHeight(proj) == fAdd(proj.perspective_point_height, proj.semi_major_axis)

\* the Dataset of lines 166-213
OrthoDataset(demvals, grid, demsrc, H, req, rpol, e, lon_0) ==
    [k         |-> "dataset",
     data_vars |-> [n \in {"elevation"} |-> demvals],
     coords    |-> [longitude      |-> demsrc.x,
                    latitude       |-> demsrc.y,
                    dem_px_angle_x |-> [r \in 1..Len(grid) |-> [c \in 1..Len(grid[r]) |-> grid[r][c].x]],
                    dem_px_angle_y |-> [r \in 1..Len(grid) |-> [c \in 1..Len(grid[r]) |-> grid[r][c].y]]],
     attrs     |-> [longitude_of_projection_origin |-> lon_0,
                    semi_major_axis    |-> req,
                    semi_minor_axis    |-> rpol,
                    satellite_height   |-> H,
                    grs80_eccentricity |-> e,
                    dem_file           |-> demsrc.file,
                    dem_ifov           |-> DemIfov]]

\* line 161: LonLat2ABIangle element-wise over the meshgrid and the elevations
AngleGrid(XY, Z, H, req, rpol, e, lon_0) ==
    [r \in 1..Len(Z) |-> [c \in 1..Len(Z[r]) |->
        LonLat2ABIangle(XY.X[r][c], XY.Y[r][c], Z[r][c], H, req, rpol, e, lon_0)]]

\* lines 155-213, from the masked elevations and the projection parameters
OrthoMapOf(demvals, demsrc, H, req, rpol, e, lon_0) ==
    OrthoDataset(demvals,
                 AngleGrid(Meshgrid(demsrc.x, demsrc.y), demvals, H, req, rpol, e, lon_0),
                 demsrc, H, req, rpol, e, lon_0)

\* make_ortho_map: the dataset it builds from an ABI image and a DEM raster
make_ortho_map(abi_image, demsrc) ==
    OrthoMapOf(MaskDem(demsrc.vals, demsrc.nodata), demsrc,
               SatHeight(abi_image.proj),
               abi_image.proj.semi_major_axis,
               abi_image.proj.semi_minor_axis,
               F(GRS80),
               abi_image.proj.longitude_of_projection_origin)

----------------------------------------------------------------------------
(* nearest-neighbour label lookup: pandas Index.get_indexer(method='nearest') *)
(* as reached from Dataset.sel(..., method='nearest') at line 250.  Positions *)
(* are 1-based here, 0 stands for pandas' -1 (no position).                 *)

IsIncreasing(idx) == \A i \in 1..(Len(idx) - 1) : fLt(idx[i], idx[i + 1])

\* number of labels that sort strictly before t (NaN sorts after every number)
CountBefore(idx, t) ==
    IF IsIncreasing(idx)
    THEN Cardinality({i \in 1..Len(idx) : IsNaN(t) \/ fLt(idx[i], t)})
    ELSE Cardinality({i \in 1..Len(idx) : ~IsNaN(t) /\ fLt(t, idx[i])})

ExactPos(idx, t) ==
    IF \E i \in 1..Len(idx) : idx[i] = t
    THEN CHOOSE i \in 1..Len(idx) : idx[i] = t
    ELSE 0

\* method='pad': the position before the insertion point
PadPos(idx, t) == IF ExactPos(idx, t) # 0 THEN ExactPos(idx, t) ELSE CountBefore(idx, t)

\* method='backfill': the insertion point, none when past the end
BackfillPos(idx, t) ==
    IF ExactPos(idx, t) # 0 THEN ExactPos(idx, t)
    ELSE IF CountBefore(idx, t) + 1 > Len(idx) THEN 0 ELSE CountBefore(idx, t) + 1

\* |idx[pos] - t|, position -1 wrapping to the last label
DistTo(idx, pos, t) ==
    LET d == fSub(idx[IF pos = 0 THEN Len(idx) ELSE pos], t)
    IN IF IsNaN(d) THEN NaN ELSE [k |-> d.k, v |-> Abs(d.v)]

\* the choice between the pad position and the backfill position
Closer(idx, left, right, ld, rd) ==
    IF right = 0 THEN left
    ELSE IF IsIncreasing(idx)
         THEN (IF fLt(ld, rd) THEN left ELSE right)
         ELSE (IF fLt(ld, rd) \/ (ld = rd /\ ~IsNaN(ld)) THEN left ELSE right)

NearestOf(idx, left, right, t) ==
    Closer(idx, left, right, DistTo(idx, left, t), DistTo(idx, right, t))

\* a lookup that always takes the pad side when there is one
PadFirstPos(idx, t) ==
    IF PadPos(idx, t) # 0 THEN PadPos(idx, t) ELSE BackfillPos(idx, t)

\* method='nearest'
NearestPos(idx, t) == NearestOf(idx, PadPos(idx, t), BackfillPos(idx, t), t)

\* the image itself, not resampled
SelNone(abi_image, pixel_map) == abi_image.Rad

\* a lookup that gives up (all NaN) when the projection parameters differ
SelStrict(abi_image, pixel_map) ==
    LET ax == pixel_map.coords.dem_px_angle_x
        ay == pixel_map.coords.dem_px_angle_y
        same == /\ SatHeight(abi_image.proj) = pixel_map.attrs.satellite_height
                /\ abi_image.proj.semi_major_axis = pixel_map.attrs.semi_major_axis
                /\ abi_image.proj.semi_minor_axis = pixel_map.attrs.semi_minor_axis
                /\ abi_image.proj.longitude_of_projection_origin
                     = pixel_map.attrs.longitude_of_projection_origin
    IN [r \in 1..Len(ax) |-> [c \in 1..Len(ax[r]) |->
           IF same
           THEN abi_image.Rad[NearestPos(abi_image.y, ay[r][c])][NearestPos(abi_image.x, ax[r][c])]
           ELSE NaN]]

\* abi_image.sel(x=dem_px_angle_x, y=dem_px_angle_y, method='nearest').Rad.values
Sel(abi_image, pixel_map) ==
    LET ax == pixel_map.coords.dem_px_angle_x
        ay == pixel_map.coords.dem_px_angle_y
    IN [r \in 1..Len(ax) |-> [c \in 1..Len(ax[r]) |->
           abi_image.Rad[NearestPos(abi_image.y, ay[r][c])][NearestPos(abi_image.x, ax[r][c])]]]

----------------------------------------------------------------------------
(* inputs *)

\* largest number of rows and of columns of the elevation raster
MaxRows == 2
MaxCols == 2
\* number of orthorectify_abi_rad calls made on the one ortho map
NumCalls == 2

Calls == 1..NumCalls

\* goes_imager_projection of a GOES-East-like image, lengths in units of req/Scale
ProjEast == [semi_major_axis |-> F(1000), semi_minor_axis |-> F(997),
             perspective_point_height |-> F(5611),
             longitude_of_projection_origin |-> F(-75000)]
\* a projection that differs in every parameter
ProjOther == [semi_major_axis |-> F(1010), semi_minor_axis |-> F(1010),
              perspective_point_height |-> F(5000),
              longitude_of_projection_origin |-> F(-60000)]

\* radiance images: scan-angle coordinates x (increasing) and y (decreasing,
\* as in the ABI fixed grid), Rad indexed [y][x]
Images ==
    { [dataset_name |-> "A", proj |-> ProjEast,
       x |-> <<F(50), F(100), F(150)>>, y |-> <<F(110), F(60)>>,
       Rad |-> << <<F(111), F(112), F(113)>>, <<F(121), F(122), F(123)>> >>],
      [dataset_name |-> "B", proj |-> ProjOther,
       x |-> <<F(-10), F(40)>>, y |-> <<F(110), F(60), F(10)>>,
       Rad |-> << <<F(211), F(212)>>, <<F(221), F(222)>>, <<F(231), F(232)>> >>],
      [dataset_name |-> "C", proj |-> ProjEast,
       x |-> <<F(52)>>, y |-> <<F(98)>>,
       Rad |-> << <<F(311)>> >>] }

\* raw elevation values: the no-data sentinel, a real elevation, and zero
NoDataVal == -9999
DemVals == <<F(NoDataVal), F(2), F(0)>>
DemLon == <<F(-75000), F(-55000), F(-35000), F(-15000)>>
DemLat == <<F(40000), F(20000), F(0), F(-20000)>>

\* the elevation rasters: every shape up to MaxRows x MaxCols, the cell values
\* cycling through DemVals from any starting point
DemSources ==
    { [file |-> "dem.tif", nodata |-> F(NoDataVal),
       x |-> SubSeq(DemLon, 1, nc), y |-> SubSeq(DemLat, 1, nr),
       vals |-> [r \in 1..nr |-> [c \in 1..nc |->
                    DemVals[(((r - 1) * nc + (c - 1) + k) % Len(DemVals)) + 1]]]] :
      nr \in 1..MaxRows, nc \in 1..MaxCols, k \in 0..(Len(DemVals) - 1) }

OutNames == {"out.nc"}

----------------------------------------------------------------------------
(* state *)

VARIABLES
    dem,        \* the elevation raster handed to make_ortho_map
    abi,        \* the ABI image handed to make_ortho_map
    pixel_map,  \* the ortho map object make_ortho_map returned, None before
    files,      \* durable storage: file name -> dataset written, None if absent
    inv,        \* the orthorectify_abi_rad calls: position and local variables
    geo         \* a stand-alone use of the two geometry transforms

vars == <<dem, abi, pixel_map, files, inv, geo>>

FileNames == {"map.nc"} \cup OutNames \cup {i.dataset_name \o "_ortho.nc" : i \in Images}

IdleCall == [pc |-> "idle", abi_image |-> None, out_filename |-> None,
             report |-> <<>>, abi_rad_values |-> None, written |-> None, ret |-> None]

GeoIdle == [pc |-> "off"]

PipeInit ==
    /\ dem \in DemSources
    /\ abi \in {i \in Images : i.dataset_name \in {"A", "B"}}
    /\ pixel_map = None
    /\ files = [f \in FileNames |-> None]
    /\ inv = [i \in Calls |-> IdleCall]

Init == PipeInit /\ geo = GeoIdle

----------------------------------------------------------------------------
(* make_ortho_map *)

\* make_ortho_map(goes_filepath, dem_filepath, out_filepath): lines 125-225
MakeOrthoMap(out_filepath) ==
    /\ pixel_map = None
    /\ pixel_map' = make_ortho_map(abi, dem)
    /\ files' = IF out_filepath # None
                THEN [files EXCEPT ![out_filepath.name] = pixel_map']
                ELSE files
    /\ UNCHANGED <<dem, abi, inv, geo>>

----------------------------------------------------------------------------
(* orthorectify_abi_rad, one action per step of the call *)

\* the two values printed on each line of the comparison, lines 237-245
ProjectionReport(abi_image, pm) ==
    << [name |-> "satellite_height",
        image |-> SatHeight(abi_image.proj), map |-> pm.attrs.satellite_height],
       [name |-> "semi_major_axis",
        image |-> abi_image.proj.semi_major_axis, map |-> pm.attrs.semi_major_axis],
       [name |-> "semi_minor_axis",
        image |-> abi_image.proj.semi_minor_axis, map |-> pm.attrs.semi_minor_axis],
       [name |-> "longitude_of_projection_origin",
        image |-> abi_image.proj.longitude_of_projection_origin,
        map |-> pm.attrs.longitude_of_projection_origin] >>

\* the call is entered: the image is opened and the comparison printed (230-246)
Open(i, image, out_filename) ==
    /\ pixel_map # None
    /\ inv[i].pc = "idle"
    /\ inv' = [inv EXCEPT ![i] = [@ EXCEPT !.pc = "opened",
                                           !.abi_image = image,
                                           !.out_filename = out_filename,
                                           !.report = ProjectionReport(image, pixel_map)]]
    /\ UNCHANGED <<dem, abi, pixel_map, files, geo>>

\* line 250, then the default output name of lines 254-255
Resample(i) ==
    /\ inv[i].pc = "opened"
    /\ inv' = [inv EXCEPT ![i] = [@ EXCEPT
                  !.pc = "resampled",
                  !.abi_rad_values = Sel(inv[i].abi_image, pixel_map),
                  !.out_filename = IF inv[i].out_filename = None
                                   THEN [k |-> "name",
                                         name |-> inv[i].abi_image.dataset_name \o "_ortho.nc"]
                                   ELSE inv[i].out_filename]]
    /\ UNCHANGED <<dem, abi, pixel_map, files, geo>>

\* the DataArray of lines 274-278
RadDataArray(abi_rad_values, pm) ==
    [values |-> abi_rad_values,
     coords |-> [longitude |-> pm.coords.longitude, latitude |-> pm.coords.latitude],
     attrs  |-> [rad |-> "units"]]

\* pixel_map['rad'] = rad_da, line 279: the object the caller passed in
AssignRad(pm, rad_da) ==
    [pm EXCEPT !.data_vars = [n \in (DOMAIN pm.data_vars) \cup {"rad"} |->
                                 IF n = "rad" THEN rad_da ELSE pm.data_vars[n]]]

\* output_ortho_netcdf up to and including line 279
Attach(i) ==
    /\ inv[i].pc = "resampled"
    /\ pixel_map' = AssignRad(pixel_map, RadDataArray(inv[i].abi_rad_values, pixel_map))
    /\ inv' = [inv EXCEPT ![i].pc = "attached"]
    /\ UNCHANGED <<dem, abi, files, geo>>

\* pixel_map.to_netcdf(out_filename), line 280
Write(i) ==
    /\ inv[i].pc = "attached"
    /\ files' = [files EXCEPT ![inv[i].out_filename.name] = pixel_map]
    /\ inv' = [inv EXCEPT ![i] = [@ EXCEPT !.pc = "written", !.written = pixel_map]]
    /\ UNCHANGED <<dem, abi, pixel_map, geo>>

\* the value orthorectify_abi_rad hands back, line 260
ReturnValue(abi_rad_values, pm) == None

\* return, lines 282 and 260: the locals of the call are gone, the caller
\* holds the returned value
Return(i) ==
    /\ inv[i].pc = "written"
    /\ inv' = [inv EXCEPT ![i] = [IdleCall EXCEPT !.pc = "done",
                  !.ret = ReturnValue(inv[i].abi_rad_values, pixel_map)]]
    /\ UNCHANGED <<dem, abi, pixel_map, files, geo>>

\* call i is the next one of a single-threaded caller: the calls before it
\* have returned and the ones after it have not begun
NextInLine(i) ==
    /\ \A j \in Calls : j < i => inv[j].pc = "done"
    /\ \A j \in Calls : j > i => inv[j].pc = "idle"

OutArgs == {None} \cup {[k |-> "name", name |-> n] : n \in OutNames}
MapOutArgs == {None, [k |-> "name", name |-> "map.nc"]}

Build == \E o \in MapOutArgs : MakeOrthoMap(o)
OpenSeq == \E i \in Calls, image \in Images, o \in OutArgs :
              NextInLine(i) /\ Open(i, image, o)
OpenAny == \E i \in Calls, image \in Images, o \in OutArgs : Open(i, image, o)
DoResample == \E i \in Calls : Resample(i)
DoAttach == \E i \in Calls : Attach(i)
DoWrite == \E i \in Calls : Write(i)
DoReturn == \E i \in Calls : Return(i)

\* the program as written: single-threaded, one call at a time
Next == Build \/ OpenSeq \/ DoResample \/ DoAttach \/ DoWrite \/ DoReturn
Spec == Init /\ [][Next]_vars

\* a multi-threaded host: calls on the one shared ortho map interleave
ConcNext == Build \/ OpenAny \/ DoResample \/ DoAttach \/ DoWrite \/ DoReturn
ConcSpec == Init /\ [][ConcNext]_vars

----------------------------------------------------------------------------
(* the geometry transforms on their own *)

\* Parameters: a GRS-80-like ellipsoid seen from geostationary distance, the
\* spherical case with e = 0, and a satellite placed at the distance
\* rpol / sqrt(1 - e^2) that the code takes for the equatorial radius
GeoParams ==
    { [H |-> F(6611), req |-> F(1000), rpol |-> F(997),  e |-> F(GRS80), lon0 |-> F(-75000)],
      [H |-> F(6611), req |-> F(1001), rpol |-> F(1001), e |-> F(0),     lon0 |-> F(-75000)],
      [H |-> F(1004), req |-> F(1002), rpol |-> F(1000), e |-> F(GRS80), lon0 |-> F(-75000)] }

\* longitude offsets from lon0, latitudes (degrees) and elevations
GeoDLon == {0, 30000, 90000, 150000, -60000}
GeoLat == {0, 45000, -30000, 90000}
GeoZ == {0, 50, -40, 5610}

ValidParams(p) ==
    /\ fLt(F(0), p.rpol)
    /\ ~fLt(p.req, p.rpol)
    /\ fLt(p.req, p.H)
    /\ ~fLt(p.e, F(0))
    /\ fLt(p.e, F(Scale))

GeoInit ==
    /\ dem = None /\ abi = None /\ pixel_map = None
    /\ files = [f \in FileNames |-> None]
    /\ inv = [i \in Calls |-> IdleCall]
    /\ \E p \in GeoParams, dl \in GeoDLon, la \in GeoLat, z \in GeoZ :
          /\ ValidParams(p)
          /\ geo = [pc |-> "in", p |-> p, lon |-> fAdd(p.lon0, F(dl)), lat |-> F(la),
                    z |-> F(z), scan |-> None, back |-> None]

\* LonLat2ABIangle applied to the input point
Inverse ==
    /\ geo.pc = "in"
    /\ geo' = [geo EXCEPT !.pc = "inv",
                          !.scan = LonLat2ABIangle(geo.lon, geo.lat, geo.z, geo.p.H,
                                                   geo.p.req, geo.p.rpol, geo.p.e, geo.p.lon0)]
    /\ UNCHANGED <<dem, abi, pixel_map, files, inv>>

\* ABIangle2LonLat applied to the pair LonLat2ABIangle returned
Forward ==
    /\ geo.pc = "inv"
    /\ geo' = [geo EXCEPT !.pc = "fwd",
                          !.back = ABIangle2LonLat(geo.scan.x, geo.scan.y, geo.p.H,
                                                   geo.p.req, geo.p.rpol, geo.p.lon0)]
    /\ UNCHANGED <<dem, abi, pixel_map, files, inv>>

GeoNext == Inverse \/ Forward
GeoSpec == GeoInit /\ [][GeoNext]_vars

----------------------------------------------------------------------------
(* properties *)

Built == pixel_map # None
Cells(arr) == UNION {{<<r, c>> : c \in 1..Len(arr[r])} : r \in 1..Len(arr)}
Resampled(i) == inv[i].pc \in {"resampled", "attached", "written"}
Wrote(i) == inv[i].pc = "written"
AngleX == pixel_map.coords.dem_px_angle_x
AngleY == pixel_map.coords.dem_px_angle_y
Elevation == pixel_map.data_vars["elevation"]

\* C1: a resampling call leaves the ortho map object it was given exactly as
\* it was: no step taken once the map is built changes pixel_map.
C1_MapNeverChanges == [][Built => pixel_map' = pixel_map]_vars

\* C2: with calls interleaving on one shared map, the dataset each call wrote
\* holds the radiance values that call resampled from its own image.
C2_WritesOwnRadiance ==
    \A i \in Calls : Wrote(i) =>
        inv[i].written.data_vars["rad"].values = inv[i].abi_rad_values

\* C3: a ground cell whose scan-angle pair is NaN in x or in y gets a NaN
\* radiance value from the lookup.
C3_NaNCellUnmatched ==
    \A i \in Calls : Resampled(i) =>
        \A rc \in Cells(AngleX) :
            (IsNaN(AngleX[rc[1]][rc[2]]) \/ IsNaN(AngleY[rc[1]][rc[2]]))
               => IsNaN(inv[i].abi_rad_values[rc[1]][rc[2]])

\* C4: in the built map, a cell whose raw elevation is the no-data sentinel or
\* 0 has NaN elevation and a NaN scan-angle pair; every other cell keeps its
\* elevation.
C4_Masking ==
    Built => \A rc \in Cells(dem.vals) :
        LET raw == dem.vals[rc[1]][rc[2]]
        IN IF raw = dem.nodata \/ raw = F(0)
           THEN /\ IsNaN(Elevation[rc[1]][rc[2]])
                /\ IsNaN(AngleX[rc[1]][rc[2]])
                /\ IsNaN(AngleY[rc[1]][rc[2]])
           ELSE Elevation[rc[1]][rc[2]] = raw

C4_Witness ==
    /\ Built
    /\ \E rc \in Cells(dem.vals) : dem.vals[rc[1]][rc[2]] = dem.nodata
    /\ \E rc \in Cells(dem.vals) : dem.vals[rc[1]][rc[2]] = F(0)
    /\ \E rc \in Cells(dem.vals) :
          /\ dem.vals[rc[1]][rc[2]] \notin {dem.nodata, F(0)}
          /\ IsFin(AngleX[rc[1]][rc[2]])

\* the image's projection parameters differ from the ones stored in the map
Mismatch(image, pm) ==
    \/ SatHeight(image.proj) # pm.attrs.satellite_height
    \/ image.proj.semi_major_axis # pm.attrs.semi_major_axis
    \/ image.proj.semi_minor_axis # pm.attrs.semi_minor_axis
    \/ image.proj.longitude_of_projection_origin # pm.attrs.longitude_of_projection_origin

\* the same image carrying the map's projection parameters
Matched(image, pm) ==
    [image EXCEPT !.proj = [semi_major_axis |-> pm.attrs.semi_major_axis,
                            semi_minor_axis |-> pm.attrs.semi_minor_axis,
                            perspective_point_height |->
                                fSub(pm.attrs.satellite_height, pm.attrs.semi_major_axis),
                            longitude_of_projection_origin |->
                                pm.attrs.longitude_of_projection_origin]]

\* C5: when the image's projection parameters differ from the map's, the call
\* shows the differing values to the caller and goes on: it resamples and
\* writes exactly what it would for the same image with matching parameters.
C5_MismatchNotFatal ==
    \A i \in Calls : (inv[i].pc \notin {"idle", "done"}
                       /\ Mismatch(inv[i].abi_image, pixel_map)) =>
        /\ inv[i].pc \in {"opened", "resampled", "attached", "written"}
        /\ Len(inv[i].report) = 4
        /\ \E n \in 1..4 : inv[i].report[n].image # inv[i].report[n].map
        /\ Resampled(i) =>
              inv[i].abi_rad_values = Sel(Matched(inv[i].abi_image, pixel_map), pixel_map)
        /\ Wrote(i) =>
              inv[i].written.data_vars["rad"].values
                 = Sel(Matched(inv[i].abi_image, pixel_map), pixel_map)

C5_Witness ==
    \E i \in Calls : inv[i].pc = "written" /\ Mismatch(inv[i].abi_image, pixel_map)
                     /\ inv[i].written # None

\* every row of arr has nc cells and there are nr rows
HasShape(arr, nr, nc) == Len(arr) = nr /\ \A r \in 1..Len(arr) : Len(arr[r]) = nc

\* C6: for an elevation raster of R rows and C columns the map's elevation and
\* its two scan-angle arrays are R x C, and so is the radiance array resampled
\* from that map, whatever the shape of the radiance image.
C6_Shape ==
    Built =>
        LET nr == Len(dem.y)
            nc == Len(dem.x)
        IN /\ HasShape(dem.vals, nr, nc)
           /\ HasShape(Elevation, nr, nc)
           /\ HasShape(AngleX, nr, nc)
           /\ HasShape(AngleY, nr, nc)
           /\ \A i \in Calls : Resampled(i) => HasShape(inv[i].abi_rad_values, nr, nc)

C6_Witness ==
    /\ Built
    /\ Len(dem.y) # Len(dem.x)
    /\ \E i \in Calls : /\ Resampled(i)
                        /\ Shape(inv[i].abi_image.Rad) # Shape(dem.vals)
                        /\ Shape(inv[i].abi_rad_values) = Shape(dem.vals)

\* no label of idx is closer to t than idx[pos]
IsNearest(idx, pos, t) ==
    \A j \in 1..Len(idx) : ~fLt(DistTo(idx, j, t), DistTo(idx, pos, t))

\* C8: a cell with a defined scan-angle pair (x, y) gets the radiance sample at
\* the image x-coordinate nearest to x and the image y-coordinate nearest to y,
\* each axis on its own, however far away that sample is.
C8_NearestNeighbour ==
    \A i \in Calls : Resampled(i) =>
        \A rc \in Cells(AngleX) :
            LET x == AngleX[rc[1]][rc[2]]
                y == AngleY[rc[1]][rc[2]]
                img == inv[i].abi_image
            IN (IsFin(x) /\ IsFin(y)) =>
                  \E ix \in 1..Len(img.x), iy \in 1..Len(img.y) :
                      /\ IsNearest(img.x, ix, x)
                      /\ IsNearest(img.y, iy, y)
                      /\ inv[i].abi_rad_values[rc[1]][rc[2]] = img.Rad[iy][ix]

\* a cell at (x0 + eps, y0 - eps) of a sample (x0, y0), eps under half the
\* spacing, got that sample; and a cell outside the image extent got a sample
C8_Witness ==
    \E i \in Calls :
       /\ Resampled(i)
       /\ Len(inv[i].abi_image.x) > 1 /\ Len(inv[i].abi_image.y) > 1
       /\ \E rc \in Cells(AngleX) :
             LET x == AngleX[rc[1]][rc[2]]
                 y == AngleY[rc[1]][rc[2]]
                 img == inv[i].abi_image
             IN /\ IsFin(x) /\ IsFin(y)
                /\ \E ix \in 1..Len(img.x), iy \in 1..Len(img.y) :
                      /\ fLt(img.x[ix], x) /\ fLt(x, fAdd(img.x[ix], F(10)))
                      /\ fLt(y, img.y[iy]) /\ fLt(fSub(img.y[iy], F(10)), y)
                      /\ inv[i].abi_rad_values[rc[1]][rc[2]] = img.Rad[iy][ix]
       /\ \E rc \in Cells(AngleX) :
             LET x == AngleX[rc[1]][rc[2]]
                 img == inv[i].abi_image
             IN /\ IsFin(x)
                /\ \A ix \in 1..Len(img.x) : fLt(fAdd(x, F(30)), img.x[ix])
                /\ inv[i].abi_rad_values[rc[1]][rc[2]] \in {img.Rad[iy][1] : iy \in 1..Len(img.y)}

\* C9: a finished call has handed its caller the orthorectified result: a
\* dataset with a radiance field and the map's coordinates.
C9_ReturnsResult ==
    \A i \in Calls : inv[i].pc = "done" =>
        /\ inv[i].ret # None
        /\ "rad" \in DOMAIN inv[i].ret.data_vars
        /\ inv[i].ret.coords = pixel_map.coords

----------------------------------------------------------------------------
(* properties of the geometry transforms, under GeoSpec *)

GeoFrame == SatFrame(geo.lon, geo.lat, geo.z, geo.p.H, geo.p.req, geo.p.rpol,
                     geo.p.e, geo.p.lon0)
GeoDone == geo.pc \in {"inv", "fwd"}
SubSatellite == geo.lon = geo.p.lon0 /\ geo.lat = F(0) /\ geo.z = F(0)
Origin == [x |-> F(0), y |-> F(0)]

\* C7 as stated: for any Parameters with H > req >= rpol > 0 the sub-satellite
\* point maps to the scan-angle origin and back to (lon0, 0).
C7_RoundTripAnyParams ==
    /\ (GeoDone /\ SubSatellite) => geo.scan = Origin
    /\ (geo.pc = "fwd" /\ SubSatellite) => geo.back = [lon |-> geo.p.lon0, lat |-> F(0)]

\* C7 amended: the same, for Parameters whose equatorial geocentric radius as
\* the code computes it, rpol / sqrt(1 - e^2), is not H.
C7_RoundTrip ==
    (SubSatellite /\ GeoFrame.rc # geo.p.H) =>
        /\ GeoDone => geo.scan = Origin
        /\ geo.pc = "fwd" => geo.back = [lon |-> geo.p.lon0, lat |-> F(0)]

C7_Witness ==
    /\ geo.pc = "fwd" /\ SubSatellite /\ GeoFrame.rc # geo.p.H
    /\ geo.p.req = geo.p.rpol /\ geo.p.e = F(0)
    /\ geo.back = [lon |-> geo.p.lon0, lat |-> F(0)]

\* the point is hidden from the satellite by the condition of line 72
Hidden == NotVisible(GeoFrame, geo.p.H, geo.p.req, geo.p.rpol)

\* the distance from the satellite to the point, as line 69 computes it
GeoNorm == fSqrt(fAdd(fAdd(fSq(GeoFrame.Sx), fSq(GeoFrame.Sy)), fSq(GeoFrame.Sz)))

\* C10 as stated: every defined input gets a defined scan-angle pair, hidden
\* from the satellite or not.
C10_AlwaysDefined == GeoDone => (IsFin(geo.scan.x) /\ IsFin(geo.scan.y))

\* C10 amended: every defined input gets a defined scan-angle pair, hidden from
\* the satellite or not, unless the point has Sx = Sz = 0 or lies at distance 0
\* from the satellite, where the divisions of lines 68-69 are 0/0.
C10_DefinedOffAxis ==
    (GeoDone /\ ~(GeoFrame.Sx = F(0) /\ GeoFrame.Sz = F(0)) /\ GeoNorm # F(0))
        => (IsFin(geo.scan.x) /\ IsFin(geo.scan.y))

C10_Witness ==
    /\ GeoDone /\ Hidden
    /\ ~(GeoFrame.Sx = F(0) /\ GeoFrame.Sz = F(0)) /\ GeoNorm # F(0)
    /\ IsFin(geo.scan.x) /\ IsFin(geo.scan.y)

====
